---- MODULE Spec2Model ----
(***************************************************************************)
(* QLogger: a QThread that drains a mutex-guarded QStringList into a       *)
(* QLoggerStream.  Producers call addMessage(), the owner calls start(),   *)
(* finishWriting(), messages() and errorString(); run() is the worker.     *)
(* Every step below is one shared-memory access (a lock, an atomic load    *)
(* or store, a list operation, a wait-condition operation) of the source.  *)
(* QAtomicInt loads and stores are taken in program order.                 *)
(***************************************************************************)
EXTENDS Integers, Sequences, FiniteSets, TLC

\* ------------------------------------------------------------------ bounds
\* addMessage() calls made in one run, over all producer threads
MaxAdds == 2

\* QLoggerFileStream::write calls made in one run
MaxFileWrites == 8

\* ------------------------------------------------------------ fixed values
Producers == {"p1", "p2"}
Owner == "main"
Worker == "worker"
Free == "free"

\* enum class LogLevel
Levels == {"Info", "Debug", "Warning", "Fatal"}

\* the error texts a failing QLoggerStream::open() may leave in the stream
SinkErrorTexts == {"open failed", "permission denied"}

\* what a racing, unsynchronised read of a QString under assignment may give
TornString == "<torn>"

\* what QLoggerStream::write may return: -1, fewer bytes than the line, all
WriteResults == {"failed", "short", "full"}

\* line 10: _flush_rate(4)
DefaultFlushRate == 4

\* the rate arguments given to QLoggerFileStream::setFlushRate
FlushRates == {-1, 0, 1, 2, 3, DefaultFlushRate}

VARIABLES
    messages,       \* QStringList _messages
    messages_size,  \* QAtomicInt _messages_size
    finish,         \* QAtomicInt _finish
    mutex,          \* QMutex _mutex: Free or the thread holding it
    empty,          \* QWaitCondition _empty: [waiters, wakeups]
    error_string,   \* QString _error_string
    format_string,  \* QString _format_string, as pieces and place markers
    stream,         \* the QLoggerStream: [open, error, written, opens, closes]
    file,           \* a QLoggerFileStream on its own, see FileCtor
    wpc,            \* position of run()
    message,        \* run()'s local `message` (<<>> when none is held)
    ppc,            \* position of each producer inside addMessage()
    plevel,         \* the level argument of each producer's current call
    adds,           \* addMessage() calls begun by each producer
    opc,            \* position of the owner thread inside its current call
    snapshot,       \* value returned by the last messages() call
    lastError,      \* value returned by the last errorString() call
    hist            \* history: what was appended, popped, observed

vars == <<messages, messages_size, finish, mutex, empty, error_string,
          format_string, stream, file, wpc, message, ppc, plevel, adds,
          opc, snapshot, lastError, hist>>

\* the variables the queue lock guards or the worker reads, as one tuple
logger == <<messages, messages_size, finish, error_string, stream>>

\* ------------------------------------------------------------- formatting
\* QLogger::logLevelToString
logLevelToString(level) ==
    CASE level = "Info"    -> "INFO"
      [] level = "Debug"   -> "DEBUG"
      [] level = "Warning" -> "WARNING"
      [] level = "Fatal"   -> "FATAL"
      [] OTHER             -> ""

\* line 144: _format_string = "[%1] %2 %3", as literal pieces and place
\* markers
DefaultFormatString == <<"[", "%1", "]", " ", "%2", " ", "%3">>

PlaceMarkers == <<"%1", "%2", "%3">>

\* QDateTime::currentDateTime().toString(_datetime_format): one rendered stamp
CurrentDateTime == "<dd.MM.yyyy hh:mm:ss>"

\* the message text of the k-th addMessage() call of producer p
MessageText(p, k) == p \o "#" \o ToString(k)

\* the lowest-numbered place marker still present in s (0 when none is)
LowestMarker(s) ==
    LET present == {n \in 1..Len(PlaceMarkers) :
                        \E i \in 1..Len(s) : s[i] = PlaceMarkers[n]}
    IN  IF present = {} THEN 0
        ELSE CHOOSE n \in present : \A m \in present : n <= m

\* QString::arg(a): every occurrence of the lowest-numbered marker becomes a
Arg(s, a) ==
    LET n == LowestMarker(s)
    IN  IF n = 0 THEN s
        ELSE [i \in 1..Len(s) |-> IF s[i] = PlaceMarkers[n] THEN a ELSE s[i]]

\* _format_string.arg(datetime).arg(levelString).arg(message) + "\n"
FormatLine(datetime, levelString, text) ==
    Arg(Arg(Arg(format_string, datetime), levelString), text) \o <<"\n">>

\* the template with each slot filled by the field its number names
SlotFill(template, datetime, levelString, text) ==
    [i \in 1..Len(template) |->
        CASE template[i] = "%1" -> datetime
          [] template[i] = "%2" -> levelString
          [] template[i] = "%3" -> text
          [] OTHER              -> template[i]]

\* the arguments given to setFormatString: the default, the three slots in
\* another order, and templates that leave a slot out
Templates ==
    {DefaultFormatString,
     <<"%3", " ", "%1", " ", "%2">>,
     <<"%2", ":", " ", "%3">>,
     <<"%1", " ", "%3">>}

\* ------------------------------------------------------------ file stream
\* lines 9-10: QLoggerFileStream::QLoggerFileStream.  Besides _flush_rate and
\* _flush_count the record keeps what a caller can count: write calls in
\* all (total), and since the rate was last set the write calls (calls), the
\* ones that did not return -1 (oks) and the flushes write issued (flushes);
\* the lines written since a flush was last issued (unflushed); the result
\* of the write call that has just returned ("none" after anything else)
\* and whether that call issued a flush.
FileCtor ==
    [open |-> FALSE, flush_rate |-> DefaultFlushRate, flush_count |-> 0,
     total |-> 0, calls |-> 0, oks |-> 0, flushes |-> 0, unflushed |-> 0,
     last |-> "none", flushed |-> FALSE]

\* --------------------------------------------------------- wait condition
\* QWaitCondition::wakeOne: grants one wake-up if a thread is waiting
WakeOne(c) ==
    [c EXCEPT !.wakeups = IF c.wakeups + 1 <= c.waiters
                          THEN c.wakeups + 1 ELSE c.waiters]

\* ------------------------------------------------------------------- Init
\* state after QLogger::QLogger, no thread started
Init ==
    /\ messages = <<>>
    /\ messages_size = 0
    /\ finish = 0
    /\ mutex = Free
    /\ empty = [waiters |-> 0, wakeups |-> 0]
    /\ error_string = ""
    /\ format_string = DefaultFormatString
    /\ stream = [open |-> FALSE, error |-> "", written |-> <<>>,
                 opens |-> 0, closes |-> 0]
    /\ file = FileCtor
    /\ wpc = "notstarted"
    /\ message = <<>>
    /\ ppc = [p \in Producers |-> "idle"]
    /\ plevel = [p \in Producers |-> "Info"]
    /\ adds = [p \in Producers |-> 0]
    /\ opc = "idle"
    /\ snapshot = <<>>
    /\ lastError = ""
    /\ hist = [appended |-> <<>>, popped |-> 0, orderly |-> TRUE,
               finCalled |-> FALSE, finReturned |-> FALSE, landed |-> 0,
               liveAppend |-> FALSE, errAtStop |-> FALSE, failed |-> FALSE,
               lateAppend |-> FALSE]

\* ------------------------------------------------------ positions of run()
\* positions inside the while loop of lines 184-206
LoopPositions ==
    {"loop_finish", "loop_size", "if_size", "pop_lock", "pop_front",
     "pop_store", "pop_unlock", "write", "writing", "elif_finish",
     "wait_lock", "wait_enter", "waiting", "wait_relock", "wait_unlock"}

\* positions on the open-failure path of lines 178-182
ErrorPositions == {"err_assign", "err_close", "stopped_error"}

\* run() has left its loop, or never entered it: it only closes and returns
FinalPositions == {"close", "stopped"} \cup ErrorPositions

\* the QLogger object has not been destroyed
Alive == opc /= "destroyed"

\* run() has returned
Terminated == wpc \in {"stopped", "stopped_error"}

\* ------------------------------------------------------------- addMessage
RECURSIVE SumOver(_, _)
SumOver(f, S) ==
    IF S = {} THEN 0
    ELSE LET x == CHOOSE y \in S : TRUE IN f[x] + SumOver(f, S \ {x})

\* addMessage() calls begun so far
TotalAdds == SumOver(adds, Producers)

\* the level argument of the k-th call of a run: odd calls draw from one half
\* of the enum and even calls from the other, so two calls cover all four
LevelsOffered(k) ==
    IF k % 2 = 1 THEN {l \in Levels : l \in {"Info", "Warning"}}
    ELSE {l \in Levels : l \in {"Debug", "Fatal"}}

\* line 163: _empty.wakeOne(), before the lock is taken
AddWakeOne(p) ==
    /\ ppc[p] = "idle"
    /\ opc \notin {"dtor_close", "destroyed"}
    /\ TotalAdds < MaxAdds
    /\ \E level \in LevelsOffered(TotalAdds + 1) :
          plevel' = [plevel EXCEPT ![p] = level]
    /\ adds' = [adds EXCEPT ![p] = @ + 1]
    /\ empty' = WakeOne(empty)
    /\ ppc' = [ppc EXCEPT ![p] = "lock"]
    /\ hist' = [hist EXCEPT !.orderly = @ /\ ~hist.finCalled]
    /\ UNCHANGED <<file, format_string, logger, mutex, wpc, message, opc, snapshot,
                   lastError>>

\* line 165: QMutexLocker locker(&_mutex)
AddLock(p) ==
    /\ ppc[p] = "lock"
    /\ mutex = Free
    /\ mutex' = p
    /\ ppc' = [ppc EXCEPT ![p] = "append"]
    /\ UNCHANGED <<file, format_string, logger, empty, wpc, message, plevel, adds,
                   opc, snapshot, lastError, hist>>

\* lines 166-170: format the line and append it to _messages
AddAppend(p) ==
    /\ ppc[p] = "append"
    /\ LET line == FormatLine(CurrentDateTime, logLevelToString(plevel[p]),
                              MessageText(p, adds[p]))
       IN  /\ messages' = Append(messages, line)
           /\ hist' = [hist EXCEPT !.appended = Append(@, line),
                                   !.liveAppend = wpc \in LoopPositions,
                                   !.lateAppend = wpc \in FinalPositions]
    /\ ppc' = [ppc EXCEPT ![p] = "store"]
    /\ UNCHANGED <<file, format_string, messages_size, finish, error_string, stream,
                   mutex, empty, wpc, message, plevel, adds, opc, snapshot,
                   lastError>>

\* AddStore with the store of line 171 left out
AddStoreSkipped(p) ==
    /\ ppc[p] = "store"
    /\ ppc' = [ppc EXCEPT ![p] = "unlock"]
    /\ UNCHANGED <<file, format_string, logger, mutex, empty, wpc, message, plevel,
                   adds, opc, snapshot, lastError, hist>>

\* line 171: _messages_size.store(_messages.size())
AddStore(p) ==
    /\ ppc[p] = "store"
    /\ messages_size' = Len(messages)
    /\ ppc' = [ppc EXCEPT ![p] = "unlock"]
    /\ UNCHANGED <<file, format_string, messages, finish, error_string, stream,
                   mutex, empty, wpc, message, plevel, adds, opc, snapshot,
                   lastError, hist>>

\* line 172: the locker goes out of scope; addMessage returns
AddUnlock(p) ==
    /\ ppc[p] = "unlock"
    /\ mutex' = Free
    /\ ppc' = [ppc EXCEPT ![p] = "idle"]
    /\ UNCHANGED <<file, format_string, logger, empty, wpc, message, plevel, adds,
                   opc, snapshot, lastError, hist>>

addMessage(p) ==
    \/ AddWakeOne(p)
    \/ AddLock(p)
    \/ AddAppend(p)
    \/ AddStore(p)
    \/ AddUnlock(p)

\* ------------------------------------------------------------ owner thread
\* QThread::start(): run() begins on the worker thread
Start ==
    /\ opc = "idle"
    /\ wpc = "notstarted"
    /\ wpc' = "open"
    /\ UNCHANGED <<file, format_string, logger, mutex, empty, message, ppc, plevel,
                   adds, opc, snapshot, lastError, hist>>

\* line 213: _empty.wakeOne(), before the lock is taken and the flag is set
FinWakeOne ==
    /\ opc = "idle"
    /\ empty' = WakeOne(empty)
    /\ opc' = "fin_lock"
    /\ hist' = [hist EXCEPT
                  !.finCalled = TRUE,
                  !.orderly = @ /\ \A p \in Producers : ppc[p] = "idle"]
    /\ UNCHANGED <<file, format_string, logger, mutex, wpc, message, ppc, plevel,
                   adds, snapshot, lastError>>

\* line 214: QMutexLocker locker(&_mutex)
FinLock ==
    /\ opc = "fin_lock"
    /\ mutex = Free
    /\ mutex' = Owner
    /\ opc' = "fin_set"
    /\ UNCHANGED <<file, format_string, logger, empty, wpc, message, ppc, plevel,
                   adds, snapshot, lastError, hist>>

\* line 215: _finish = 1
FinSet ==
    /\ opc = "fin_set"
    /\ finish' = 1
    /\ opc' = "fin_unlock"
    /\ UNCHANGED <<file, format_string, messages, messages_size, error_string,
                   stream, mutex, empty, wpc, message, ppc, plevel, adds,
                   snapshot, lastError, hist>>

\* line 217: the locker goes out of scope; finishWriting returns
FinUnlock ==
    /\ opc = "fin_unlock"
    /\ mutex' = Free
    /\ opc' = "idle"
    /\ hist' = [hist EXCEPT !.finReturned = TRUE]
    /\ UNCHANGED <<file, format_string, logger, empty, wpc, message, ppc, plevel,
                   adds, snapshot, lastError>>

finishWriting ==
    \/ FinWakeOne
    \/ FinLock
    \/ FinSet
    \/ FinUnlock

\* line 233: QMutexLocker locker(&_mutex)
MsgLock ==
    /\ opc = "idle"
    /\ mutex = Free
    /\ mutex' = Owner
    /\ opc' = "msgs_copy"
    /\ UNCHANGED <<file, format_string, logger, empty, wpc, message, ppc, plevel,
                   adds, snapshot, lastError, hist>>

\* MsgCopy as a draining read: the list is moved out instead of copied
MsgCopyDrains ==
    /\ opc = "msgs_copy"
    /\ snapshot' = messages
    /\ messages' = <<>>
    /\ opc' = "msgs_unlock"
    /\ UNCHANGED <<file, format_string, messages_size, finish, error_string, stream,
                   mutex, empty, wpc, message, ppc, plevel, adds, lastError,
                   hist>>

\* line 234: return _messages (the copy is taken while the lock is held)
MsgCopy ==
    /\ opc = "msgs_copy"
    /\ snapshot' = messages
    /\ opc' = "msgs_unlock"
    /\ UNCHANGED <<file, format_string, logger, mutex, empty, wpc, message, ppc,
                   plevel, adds, lastError, hist>>

\* line 235: the locker goes out of scope; messages() returns and the
\* caller's temporary is not followed further
MsgUnlock ==
    /\ opc = "msgs_unlock"
    /\ mutex' = Free
    /\ opc' = "idle"
    /\ snapshot' = <<>>
    /\ UNCHANGED <<file, format_string, logger, empty, wpc, message, ppc, plevel,
                   adds, lastError, hist>>

messagesCall ==
    \/ MsgLock
    \/ MsgCopy
    \/ MsgUnlock

\* line 239: QMutexLocker locker(&_mutex)
ErrLock ==
    /\ opc = "idle"
    /\ mutex = Free
    /\ mutex' = Owner
    /\ opc' = "err_copy"
    /\ UNCHANGED <<file, format_string, logger, empty, wpc, message, ppc, plevel,
                   adds, snapshot, lastError, hist>>

\* line 240: return _error_string.  run() assigns _error_string at line 179
\* without the lock, so a read that overlaps the assignment is a data race:
\* it may give the old text, the new text, or neither.
ErrCopy ==
    /\ opc = "err_copy"
    /\ lastError' \in IF wpc = "err_assign"
                      THEN {error_string, stream.error, TornString}
                      ELSE {error_string}
    /\ opc' = "err_unlock"
    /\ hist' = [hist EXCEPT !.errAtStop = Terminated]
    /\ UNCHANGED <<file, format_string, logger, mutex, empty, wpc, message, ppc,
                   plevel, adds, snapshot>>

\* line 241: the locker goes out of scope; errorString() returns and the
\* caller's temporary is not followed further
ErrUnlock ==
    /\ opc = "err_unlock"
    /\ mutex' = Free
    /\ opc' = "idle"
    /\ lastError' = ""
    /\ hist' = [hist EXCEPT !.errAtStop = FALSE]
    /\ UNCHANGED <<file, format_string, logger, empty, wpc, message, ppc, plevel,
                   adds, snapshot>>

errorString ==
    \/ ErrLock
    \/ ErrCopy
    \/ ErrUnlock

\* --------------------------------------------------------------- ~QLogger
\* The owner destroys the logger when it is in none of its own calls and no
\* producer is inside addMessage(); the worker may or may not have finished.
\* Once the object is gone no thread takes a further step on it.

\* DtorIsOpen without the isOpen() test: close() is called in every case
DtorIsOpenAlwaysCloses ==
    /\ opc = "idle"
    /\ \A p \in Producers : ppc[p] = "idle"
    /\ opc' = "dtor_close"
    /\ UNCHANGED <<file, format_string, logger, mutex, empty, wpc, message, ppc,
                   plevel, adds, snapshot, lastError, hist>>

\* line 150: if (_stream->isOpen())
DtorIsOpen ==
    /\ opc = "idle"
    /\ \A p \in Producers : ppc[p] = "idle"
    /\ opc' = IF stream.open THEN "dtor_close" ELSE "destroyed"
    /\ UNCHANGED <<file, format_string, logger, mutex, empty, wpc, message, ppc,
                   plevel, adds, snapshot, lastError, hist>>

\* line 151: _stream->close(); the destructor returns
DtorClose ==
    /\ opc = "dtor_close"
    /\ stream' = [stream EXCEPT !.open = FALSE, !.closes = @ + 1]
    /\ opc' = "destroyed"
    /\ UNCHANGED <<file, format_string, messages, messages_size, finish,
                   error_string, mutex, empty, wpc, message, ppc, plevel, adds,
                   snapshot, lastError, hist>>

destructor ==
    \/ DtorIsOpen
    \/ DtorClose

\* -------------------------------------------------------- setFormatString
\* line 257: QMutexLocker locker(&_mutex)
SetFmtLock ==
    /\ opc = "idle"
    /\ mutex = Free
    /\ mutex' = Owner
    /\ opc' = "fmt_assign"
    /\ UNCHANGED <<file, format_string, logger, empty, wpc, message, ppc,
                   plevel, adds, snapshot, lastError, hist>>

\* line 258: _format_string = formatString
SetFmtAssign ==
    /\ opc = "fmt_assign"
    /\ \E formatString \in Templates : format_string' = formatString
    /\ opc' = "fmt_unlock"
    /\ UNCHANGED <<file, logger, mutex, empty, wpc, message, ppc, plevel,
                   adds, snapshot, lastError, hist>>

\* line 259: the locker releases the mutex
SetFmtUnlock ==
    /\ opc = "fmt_unlock"
    /\ mutex' = Free
    /\ opc' = "idle"
    /\ UNCHANGED <<file, format_string, logger, empty, wpc, message, ppc,
                   plevel, adds, snapshot, lastError, hist>>

setFormatString ==
    \/ SetFmtLock
    \/ SetFmtAssign
    \/ SetFmtUnlock

\* ------------------------------------------------------ QLoggerFileStream
\* everything but the file stream
loggerVars == <<messages, messages_size, finish, mutex, empty, error_string,
                format_string, stream, wpc, message, ppc, plevel, adds, opc,
                snapshot, lastError, hist>>

\* lines 12-15: open(), which succeeds or fails
FileOpen ==
    /\ ~file.open
    /\ \E ok \in BOOLEAN :
          file' = [file EXCEPT !.open = ok, !.last = "none",
                               !.flushed = FALSE]
    /\ UNCHANGED loggerVars

\* FileWrite with the bytes != -1 test left out: a failed write is counted
FileWriteCountsFailed ==
    /\ file.total < MaxFileWrites
    /\ \E bytes \in (IF file.open THEN WriteResults ELSE {"failed"}) :
          LET counted == file.flush_rate > 0
              count == IF counted
                       THEN (file.flush_count + 1) % file.flush_rate
                       ELSE file.flush_count
              flush == counted /\ count = 0
          IN  file' = [file EXCEPT
                  !.flush_count = count,
                  !.total = @ + 1,
                  !.calls = @ + 1,
                  !.oks = IF bytes /= "failed" THEN @ + 1 ELSE @,
                  !.flushes = IF flush THEN @ + 1 ELSE @,
                  !.unflushed = IF flush THEN 0
                                ELSE IF bytes /= "failed" THEN @ + 1 ELSE @,
                  !.last = bytes,
                  !.flushed = flush]
    /\ UNCHANGED loggerVars

\* lines 22-33: write().  _file.write gives -1 on a device that is not open
\* and any result on an open one; the counter advances and wraps only when
\* bytes != -1 && _flush_rate > 0, and a wrap to 0 issues _file.flush()
FileWrite ==
    /\ file.total < MaxFileWrites
    /\ \E bytes \in (IF file.open THEN WriteResults ELSE {"failed"}) :
          LET counted == bytes /= "failed" /\ file.flush_rate > 0
              count == IF counted
                       THEN (file.flush_count + 1) % file.flush_rate
                       ELSE file.flush_count
              flush == counted /\ count = 0
          IN  file' = [file EXCEPT
                  !.flush_count = count,
                  !.total = @ + 1,
                  !.calls = @ + 1,
                  !.oks = IF bytes /= "failed" THEN @ + 1 ELSE @,
                  !.flushes = IF flush THEN @ + 1 ELSE @,
                  !.unflushed = IF flush THEN 0
                                ELSE IF bytes /= "failed" THEN @ + 1 ELSE @,
                  !.last = bytes,
                  !.flushed = flush]
    /\ UNCHANGED loggerVars

\* lines 35-38: flush(), called by the user of the stream
FileFlush ==
    /\ file' = [file EXCEPT !.unflushed = 0, !.last = "none",
                            !.flushed = FALSE]
    /\ UNCHANGED loggerVars

\* lines 40-43: close(); QFile::close flushes what it still holds
FileClose ==
    /\ file' = [file EXCEPT !.open = FALSE, !.unflushed = 0, !.last = "none",
                            !.flushed = FALSE]
    /\ UNCHANGED loggerVars

\* SetFlushRate without line 63: the counter keeps its value
SetFlushRateKeepsCount ==
    /\ \E rate \in FlushRates :
          /\ file' = [file EXCEPT !.flush_rate = rate,
                                  !.calls = 0, !.oks = 0, !.flushes = 0,
                                  !.last = "none", !.flushed = FALSE]
    /\ UNCHANGED loggerVars

\* lines 60-64: setFlushRate(rate): _flush_rate = rate; _flush_count = 0
SetFlushRate ==
    /\ \E rate \in FlushRates :
          /\ file' = [file EXCEPT !.flush_rate = rate, !.flush_count = 0,
                                  !.calls = 0, !.oks = 0, !.flushes = 0,
                                  !.last = "none", !.flushed = FALSE]
    /\ UNCHANGED loggerVars

\* -------------------------------------------------------------------- run
\* WorkerOpen without the test of open()'s result: the loop is entered
\* whether or not the stream was opened
WorkerOpenIgnoresResult ==
    /\ wpc = "open"
    /\ Alive
    /\ \/ stream' = [stream EXCEPT !.open = TRUE, !.opens = @ + 1]
       \/ \E e \in SinkErrorTexts :
             stream' = [stream EXCEPT !.error = e, !.opens = @ + 1]
    /\ wpc' = "loop_finish"
    /\ UNCHANGED <<file, format_string, messages, messages_size, finish,
                   error_string, mutex, empty, message, ppc, plevel, adds, opc,
                   snapshot, lastError, hist>>

\* line 178: _stream->open(), which succeeds or fails
WorkerOpen ==
    /\ wpc = "open"
    /\ Alive
    /\ \/ /\ stream' = [stream EXCEPT !.open = TRUE, !.opens = @ + 1]
          /\ wpc' = "loop_finish"
       \/ \E e \in SinkErrorTexts :
             /\ stream' = [stream EXCEPT !.error = e, !.opens = @ + 1]
             /\ wpc' = "err_assign"
    /\ UNCHANGED <<file, format_string, messages, messages_size, finish,
                   error_string, mutex, empty, message, ppc, plevel, adds, opc,
                   snapshot, lastError, hist>>

\* line 179: _error_string = _stream->errorString()
WorkerErrAssign ==
    /\ wpc = "err_assign"
    /\ Alive
    /\ error_string' = stream.error
    /\ wpc' = "err_close"
    /\ UNCHANGED <<file, format_string, messages, messages_size, finish, stream,
                   mutex, empty, message, ppc, plevel, adds, opc, snapshot,
                   lastError, hist>>

\* WorkerErrClose without the return of line 181: run() falls into the loop
WorkerErrCloseNoReturn ==
    /\ wpc = "err_close"
    /\ Alive
    /\ stream' = [stream EXCEPT !.open = FALSE, !.closes = @ + 1]
    /\ wpc' = "loop_finish"
    /\ UNCHANGED <<file, format_string, messages, messages_size, finish,
                   error_string, mutex, empty, message, ppc, plevel, adds, opc,
                   snapshot, lastError, hist>>

\* lines 180-181: _stream->close(); return
WorkerErrClose ==
    /\ wpc = "err_close"
    /\ Alive
    /\ stream' = [stream EXCEPT !.open = FALSE, !.closes = @ + 1]
    /\ wpc' = "stopped_error"
    /\ UNCHANGED <<file, format_string, messages, messages_size, finish,
                   error_string, mutex, empty, message, ppc, plevel, adds, opc,
                   snapshot, lastError, hist>>

\* line 184, left operand: !_finish.load()
WorkerLoopFinish ==
    /\ wpc = "loop_finish"
    /\ Alive
    /\ wpc' = IF finish = 0 THEN "if_size" ELSE "loop_size"
    /\ hist' = IF finish = 0 THEN hist
               ELSE [hist EXCEPT !.landed = Len(hist.appended)]
    /\ UNCHANGED <<file, format_string, logger, mutex, empty, message, ppc, plevel,
                   adds, opc, snapshot, lastError>>

\* WorkerLoopSize with the loop condition reduced to !_finish.load()
WorkerLoopSizeIgnored ==
    /\ wpc = "loop_size"
    /\ Alive
    /\ wpc' = "close"
    /\ UNCHANGED <<file, format_string, logger, mutex, empty, message, ppc, plevel,
                   adds, opc, snapshot, lastError, hist>>

\* line 184, right operand: _messages_size.load() != 0
WorkerLoopSize ==
    /\ wpc = "loop_size"
    /\ Alive
    /\ wpc' = IF messages_size /= 0 THEN "if_size" ELSE "close"
    /\ UNCHANGED <<file, format_string, logger, mutex, empty, message, ppc, plevel,
                   adds, opc, snapshot, lastError, hist>>

\* WorkerIfSize without the test of line 185: the pop is always attempted
WorkerIfSizeSkipped ==
    /\ wpc = "if_size"
    /\ Alive
    /\ wpc' = "pop_lock"
    /\ UNCHANGED <<file, format_string, logger, mutex, empty, message, ppc, plevel,
                   adds, opc, snapshot, lastError, hist>>

\* line 185: if (_messages_size.load() != 0)
WorkerIfSize ==
    /\ wpc = "if_size"
    /\ Alive
    /\ wpc' = IF messages_size /= 0 THEN "pop_lock" ELSE "elif_finish"
    /\ UNCHANGED <<file, format_string, logger, mutex, empty, message, ppc, plevel,
                   adds, opc, snapshot, lastError, hist>>

\* line 187: _mutex.lock()
WorkerPopLock ==
    /\ wpc = "pop_lock"
    /\ Alive
    /\ mutex = Free
    /\ mutex' = Worker
    /\ wpc' = "pop_front"
    /\ UNCHANGED <<file, format_string, logger, empty, message, ppc, plevel, adds,
                   opc, snapshot, lastError, hist>>

\* WorkerPopFront emptying the list: front() and clear()
WorkerPopClears ==
    /\ wpc = "pop_front"
    /\ Alive
    /\ IF messages = <<>>
       THEN /\ wpc' = "undefined"
            /\ UNCHANGED <<messages, message, hist>>
       ELSE /\ message' = Head(messages)
            /\ messages' = <<>>
            /\ hist' = [hist EXCEPT !.popped = @ + 1]
            /\ wpc' = "pop_store"
    /\ UNCHANGED <<file, format_string, messages_size, finish, error_string, stream,
                   mutex, empty, ppc, plevel, adds, opc, snapshot, lastError>>

\* WorkerPopFront taking the newest entry: back() and pop_back()
WorkerPopBack ==
    /\ wpc = "pop_front"
    /\ Alive
    /\ IF messages = <<>>
       THEN /\ wpc' = "undefined"
            /\ UNCHANGED <<messages, message, hist>>
       ELSE /\ message' = messages[Len(messages)]
            /\ messages' = SubSeq(messages, 1, Len(messages) - 1)
            /\ hist' = [hist EXCEPT !.popped = @ + 1]
            /\ wpc' = "pop_store"
    /\ UNCHANGED <<file, format_string, messages_size, finish, error_string, stream,
                   mutex, empty, ppc, plevel, adds, opc, snapshot, lastError>>

\* lines 188-189: message = _messages.front(); _messages.pop_front().
\* front() of an empty list is undefined: the run is then lost ("undefined").
WorkerPopFront ==
    /\ wpc = "pop_front"
    /\ Alive
    /\ IF messages = <<>>
       THEN /\ wpc' = "undefined"
            /\ UNCHANGED <<messages, message, hist>>
       ELSE /\ message' = Head(messages)
            /\ messages' = Tail(messages)
            /\ hist' = [hist EXCEPT !.popped = @ + 1]
            /\ wpc' = "pop_store"
    /\ UNCHANGED <<file, format_string, messages_size, finish, error_string, stream,
                   mutex, empty, ppc, plevel, adds, opc, snapshot, lastError>>

\* line 190: _messages_size.store(_messages.size())
WorkerPopStore ==
    /\ wpc = "pop_store"
    /\ Alive
    /\ messages_size' = Len(messages)
    /\ wpc' = "pop_unlock"
    /\ UNCHANGED <<file, format_string, messages, finish, error_string, stream,
                   mutex, empty, message, ppc, plevel, adds, opc, snapshot,
                   lastError, hist>>

\* WorkerPopUnlock with the unlock of line 192 moved after the write
WorkerPopKeepsLock ==
    /\ wpc = "pop_unlock"
    /\ Alive
    /\ wpc' = "write"
    /\ UNCHANGED <<file, format_string, logger, mutex, empty, message, ppc, plevel,
                   adds, opc, snapshot, lastError, hist>>

\* line 192: _mutex.unlock()
WorkerPopUnlock ==
    /\ wpc = "pop_unlock"
    /\ Alive
    /\ mutex' = Free
    /\ wpc' = "write"
    /\ UNCHANGED <<file, format_string, logger, empty, message, ppc, plevel, adds,
                   opc, snapshot, lastError, hist>>

\* line 197: _stream->write(message) is entered; the stream receives the line
WorkerWrite ==
    /\ wpc = "write"
    /\ Alive
    /\ stream' = [stream EXCEPT !.written = Append(@, message)]
    /\ wpc' = "writing"
    /\ UNCHANGED <<file, format_string, messages, messages_size, finish,
                   error_string, mutex, empty, message, ppc, plevel, adds, opc,
                   snapshot, lastError, hist>>

\* WorkerWriteReturn with a retry policy: a line whose write did not go
\* through in full is put back at the head of the queue
WorkerWriteReturnRetries ==
    /\ wpc = "writing"
    /\ Alive
    /\ \E r \in WriteResults :
          /\ hist' = [hist EXCEPT !.failed = @ \/ r /= "full"]
          /\ messages' = IF r = "full" THEN messages ELSE <<message>> \o messages
          /\ messages_size' = IF r = "full" THEN messages_size
                              ELSE Len(messages) + 1
    /\ message' = <<>>
    /\ wpc' = "loop_finish"
    /\ UNCHANGED <<file, format_string, finish, error_string, stream, mutex, empty,
                   ppc, plevel, adds, opc, snapshot, lastError>>

\* WorkerWriteReturn with error propagation: a write that did not go through
\* in full leaves the stream's error text in _error_string
WorkerWriteReturnReports ==
    /\ wpc = "writing"
    /\ Alive
    /\ \E r \in WriteResults :
          /\ hist' = [hist EXCEPT !.failed = @ \/ r /= "full"]
          /\ error_string' = IF r = "full" THEN error_string ELSE "write failed"
    /\ message' = <<>>
    /\ wpc' = "loop_finish"
    /\ UNCHANGED <<file, format_string, messages, messages_size, finish, stream,
                   mutex, empty, ppc, plevel, adds, opc, snapshot, lastError>>

\* line 197: write() returns some result, which run() discards; `message`
\* dies at the end of the block
WorkerWriteReturn ==
    /\ wpc = "writing"
    /\ Alive
    /\ \E r \in WriteResults :
          hist' = [hist EXCEPT !.failed = @ \/ r /= "full"]
    /\ message' = <<>>
    /\ wpc' = "loop_finish"
    /\ UNCHANGED <<file, format_string, logger, mutex, empty, ppc, plevel, adds, opc,
                   snapshot, lastError>>

\* line 199: else if (!_finish.load())
WorkerElifFinish ==
    /\ wpc = "elif_finish"
    /\ Alive
    /\ wpc' = IF finish = 0 THEN "wait_lock" ELSE "loop_finish"
    /\ UNCHANGED <<file, format_string, logger, mutex, empty, message, ppc, plevel,
                   adds, opc, snapshot, lastError, hist>>

\* line 201: _mutex.lock()
WorkerWaitLock ==
    /\ wpc = "wait_lock"
    /\ Alive
    /\ mutex = Free
    /\ mutex' = Worker
    /\ wpc' = "wait_enter"
    /\ UNCHANGED <<file, format_string, logger, empty, message, ppc, plevel, adds,
                   opc, snapshot, lastError, hist>>

\* line 202: _empty.wait(&_mutex) registers the waiter and releases the lock
WorkerWaitEnter ==
    /\ wpc = "wait_enter"
    /\ Alive
    /\ empty' = [empty EXCEPT !.waiters = @ + 1]
    /\ mutex' = Free
    /\ wpc' = "waiting"
    /\ UNCHANGED <<file, format_string, logger, message, ppc, plevel, adds, opc,
                   snapshot, lastError, hist>>

\* line 202: the wait ends only by consuming a wake-up granted by wakeOne
WorkerWoken ==
    /\ wpc = "waiting"
    /\ Alive
    /\ empty.wakeups > 0
    /\ empty' = [waiters |-> empty.waiters - 1, wakeups |-> empty.wakeups - 1]
    /\ wpc' = "wait_relock"
    /\ UNCHANGED <<file, format_string, logger, mutex, message, ppc, plevel, adds,
                   opc, snapshot, lastError, hist>>

\* line 202: wait() takes the lock again before it returns
WorkerWaitRelock ==
    /\ wpc = "wait_relock"
    /\ Alive
    /\ mutex = Free
    /\ mutex' = Worker
    /\ wpc' = "wait_unlock"
    /\ UNCHANGED <<file, format_string, logger, empty, message, ppc, plevel, adds,
                   opc, snapshot, lastError, hist>>

\* line 203: _mutex.unlock()
WorkerWaitUnlock ==
    /\ wpc = "wait_unlock"
    /\ Alive
    /\ mutex' = Free
    /\ wpc' = "loop_finish"
    /\ UNCHANGED <<file, format_string, logger, empty, message, ppc, plevel, adds,
                   opc, snapshot, lastError, hist>>

\* WorkerClose inside the loop: after close() the condition is tested again
WorkerCloseRechecks ==
    /\ wpc = "close"
    /\ Alive
    /\ stream' = [stream EXCEPT !.open = FALSE, !.closes = @ + 1]
    /\ wpc' = "loop_finish"
    /\ UNCHANGED <<file, format_string, messages, messages_size, finish,
                   error_string, mutex, empty, message, ppc, plevel, adds, opc,
                   snapshot, lastError, hist>>

\* line 207: _stream->close(); run() returns
WorkerClose ==
    /\ wpc = "close"
    /\ Alive
    /\ stream' = [stream EXCEPT !.open = FALSE, !.closes = @ + 1]
    /\ wpc' = "stopped"
    /\ UNCHANGED <<file, format_string, messages, messages_size, finish,
                   error_string, mutex, empty, message, ppc, plevel, adds, opc,
                   snapshot, lastError, hist>>

run ==
    \/ WorkerOpen
    \/ WorkerErrAssign
    \/ WorkerErrClose
    \/ WorkerLoopFinish
    \/ WorkerLoopSize
    \/ WorkerIfSize
    \/ WorkerPopLock
    \/ WorkerPopFront
    \/ WorkerPopStore
    \/ WorkerPopUnlock
    \/ WorkerWrite
    \/ WorkerWriteReturn
    \/ WorkerElifFinish
    \/ WorkerWaitLock
    \/ WorkerWaitEnter
    \/ WorkerWoken
    \/ WorkerWaitRelock
    \/ WorkerWaitUnlock
    \/ WorkerClose

\* ---------------------------------------------------------- specification
Next ==
    \/ \E p \in Producers : addMessage(p)
    \/ Start
    \/ finishWriting
    \/ messagesCall
    \/ errorString
    \/ destructor
    \/ run

Spec == Init /\ [][Next]_vars

\* a QLoggerFileStream used on its own
FileNext ==
    \/ FileOpen
    \/ FileWrite
    \/ FileFlush
    \/ FileClose
    \/ SetFlushRate

FileSpec == Init /\ [][FileNext]_vars

\* producers logging while the owner changes the template; no thread started
FormatNext ==
    \/ \E p \in Producers : addMessage(p)
    \/ setFormatString

FormatSpec == Init /\ [][FormatNext]_vars

\* ------------------------------------------------------------- properties
\* no addMessage(), finishWriting(), messages() or errorString() call is in
\* progress
Quiescent == opc = "idle" /\ \A p \in Producers : ppc[p] = "idle"

\* open() succeeded
OpenedOk == stream.opens = 1 /\ stream.error = ""

\* open() failed
OpenFailed == stream.opens = 1 /\ stream.error \in SinkErrorTexts

\* the worker sleeps on _empty and no wake-up has been granted to it
WorkerBlocked == wpc = "waiting" /\ empty.wakeups = 0

\* C1: when every addMessage() call returned before finishWriting() was
\* called and run() has returned after a successful open(), the stream has
\* received every appended line exactly once, one per call, and the queue is
\* empty.
C1_AllLinesWrittenOnce ==
    (wpc = "stopped" /\ hist.finCalled /\ hist.orderly) =>
        /\ Len(stream.written) = TotalAdds
        /\ stream.written = hist.appended
        /\ \A i, j \in 1..Len(stream.written) :
              stream.written[i] = stream.written[j] => i = j
        /\ messages = <<>>

C1_Witness ==
    /\ wpc = "stopped"
    /\ hist.finCalled
    /\ hist.orderly
    /\ Len(stream.written) >= 2

\* C2: the lines passed to the stream are, in order, the first lines that
\* were appended to the queue under the lock.
C2_WrittenIsPrefixOfAppended ==
    /\ Len(stream.written) <= Len(hist.appended)
    /\ stream.written = SubSeq(hist.appended, 1, Len(stream.written))

C2_Witness ==
    /\ Len(stream.written) >= 2
    /\ wpc \in LoopPositions

\* C3: once finishWriting() has returned on a logger whose stream opened, and
\* no call is in progress, run() has returned or can still take a step.
C3_FinishStopsWorker ==
    (OpenedOk /\ hist.finReturned /\ Quiescent) =>
        (wpc = "stopped" \/ ENABLED run)

\* C4: an entry appended while run() was inside its loop is not left in the
\* queue with the worker unable to step and no call in progress.
C4_AppendedEntryGetsWritten ==
    (OpenedOk /\ wpc \in LoopPositions /\ hist.liveAppend /\ Quiescent
        /\ messages /= <<>>) => ENABLED run

\* C5: after a failed open() nothing is ever popped or written, the stream is
\* not open, run() is on its failure path, and once it has returned the
\* stream was closed once and _error_string (and what errorString() then
\* returns) is the stream's error text.
C5_OpenFailureWritesNothing ==
    OpenFailed =>
        /\ stream.written = <<>>
        /\ hist.popped = 0
        /\ ~stream.open
        /\ wpc \in ErrorPositions
        /\ wpc = "stopped_error" =>
              /\ error_string = stream.error
              /\ stream.closes = 1
              /\ (opc = "err_unlock" /\ hist.errAtStop) =>
                     lastError = stream.error

C5_Witness ==
    /\ OpenFailed
    /\ wpc = "stopped_error"
    /\ Len(hist.appended) >= 2
    /\ \E p \in Producers : ppc[p] = "idle" /\ adds[p] > 0
    /\ opc = "err_unlock"
    /\ hist.errAtStop

\* C6: every entry that was in the queue when the worker began the
\* evaluation of its loop condition that ended the loop has been written
\* when the worker closes the stream.
C6_LandedEntriesAreDrained ==
    wpc \in {"close", "stopped"} => Len(stream.written) >= hist.landed

\* C7: with no call in progress, the worker sleeps on _empty without a
\* granted wake-up only if the queue is empty and _finish is not set.
C7_BlockedOnlyWhenIdle ==
    (WorkerBlocked /\ Quiescent) => (messages = <<>> /\ finish = 0)

\* C8: the worker does not hold _mutex from the moment it is about to call
\* write() until write() has returned.
C8_NoLockDuringWrite ==
    wpc \in {"write", "writing"} => mutex /= Worker

C8_Witness ==
    /\ wpc = "writing"
    /\ \E p \in Producers : mutex = p /\ ppc[p] = "unlock"

\* C9: a finishWriting() call made after an earlier one has returned, with no
\* addMessage() in progress, does not change whether the worker is blocked.
C9_SecondFinishChangesNothing ==
    [][(hist.finReturned /\ FinWakeOne /\ \A p \in Producers : ppc[p] = "idle")
          => (WorkerBlocked => WorkerBlocked')]_vars

\* C10: messages() returns the queue as it is while the lock is held, its
\* length is the number of lines appended minus the number popped, and no
\* step of the call changes the queue, the size counter, the finish flag,
\* the error string or the stream.
C10_MessagesIsPureSnapshot ==
    /\ [](opc = "msgs_unlock" =>
            /\ snapshot = messages
            /\ Len(snapshot) = Len(hist.appended) - hist.popped)
    /\ [][messagesCall => UNCHANGED logger]_vars

C10_Witness ==
    /\ opc = "msgs_unlock"
    /\ Len(snapshot) = 1
    /\ hist.popped = 1
    /\ wpc \in LoopPositions

\* the line run() has popped and not yet passed to write(), if any
Held == IF wpc \in {"pop_store", "pop_unlock", "write"} THEN <<message>>
        ELSE <<>>

\* C11: when open() succeeded, _error_string is empty and errorString()
\* returns the empty string, whatever the writes returned and after close.
C11_ErrorOnlyFromOpen ==
    OpenedOk =>
        /\ error_string = ""
        /\ opc = "err_unlock" => lastError = ""

C11_Witness ==
    /\ OpenedOk
    /\ hist.failed
    /\ wpc = "stopped"
    /\ opc = "err_unlock"
    /\ hist.errAtStop

\* C12: file stream with rate R > 0: write issues a flush exactly once every
\* R writes that did not fail, counted since the rate was set; the counter
\* is the number of such writes modulo R, so it is 0 after each flush and a
\* failed write leaves it alone.  With R <= 0 no write issues a flush.
C12_FlushOncePerRate ==
    /\ file.flush_rate > 0 =>
          /\ file.flush_count = file.oks % file.flush_rate
          /\ file.flushes = file.oks \div file.flush_rate
    /\ file.flush_rate <= 0 => file.flushes = 0 /\ ~file.flushed
    /\ file.flushed => file.flush_count = 0 /\ file.last \in {"short", "full"}

\* rate 3, two flushes issued by write, and some write call failed
C12_Witness ==
    /\ file.flush_rate = 3
    /\ file.flushes = 2
    /\ file.calls > file.oks
    /\ file.flushed

\* C13 as stated: with rate 4, the write call that is the 4th, 8th, ... since
\* the rate was set issued a flush
C13_FlushEveryFourthCall ==
    (/\ file.flush_rate = DefaultFlushRate
     /\ file.last /= "none"
     /\ file.calls > 0
     /\ file.calls % DefaultFlushRate = 0) => file.flushed

\* C13 amended: with rate 4, the write that is the 4th, 8th, ... of those that
\* did not fail since the rate was set issued a flush, and nothing written
\* is left unflushed after it
C13_FlushEveryFourthSuccess ==
    (/\ file.flush_rate = DefaultFlushRate
     /\ file.last \in {"short", "full"}
     /\ file.oks > 0
     /\ file.oks % DefaultFlushRate = 0) => file.flushed /\ file.unflushed = 0

\* the fifth write call is the fourth that did not fail, and it flushed
C13_Witness ==
    /\ file.flush_rate = DefaultFlushRate
    /\ file.calls = 5
    /\ file.oks = 4
    /\ file.last \in {"short", "full"}
    /\ file.flushed

\* C14: the destructor calls close() exactly when isOpen() is true, close()
\* leaves the stream closed, no step of the destructor passes a line to the
\* stream or touches the queue, and once the logger is destroyed the stream
\* is closed and receives nothing more.
C14_DestructorOnlyCloses ==
    /\ [](opc = "destroyed" => ~stream.open)
    /\ [][(/\ DtorIsOpen =>
                /\ stream' = stream
                /\ messages' = messages
                /\ (opc' = "dtor_close") <=> stream.open
           /\ DtorClose =>
                /\ stream'.written = stream.written
                /\ stream'.closes = stream.closes + 1
                /\ messages' = messages
           /\ opc = "destroyed" => stream' = stream)]_vars

C14_Witness ==
    /\ opc = "destroyed"
    /\ stream.closes = 1
    /\ wpc \in LoopPositions
    /\ messages /= <<>>

\* C15: every addMessage appends exactly one line: the current template with
\* slot 1 filled by the timestamp, slot 2 by the level string and slot 3 by
\* the message body, followed by one newline
C15_LineFillsSlots ==
    [][(\A p \in Producers :
          (ppc[p] = "append" /\ ppc'[p] = "store") =>
             messages' = Append(messages,
                                SlotFill(format_string, CurrentDateTime,
                                         logLevelToString(plevel[p]),
                                         MessageText(p, adds[p]))
                                \o <<"\n">>))]_vars

C17_StoppedIsTerminal ==
    [][(wpc \in FinalPositions) =>
          (/\ wpc' \in FinalPositions
           /\ hist'.popped = hist.popped
           /\ stream'.written = stream.written
           /\ Len(messages') >= Len(messages)
           /\ SubSeq(messages', 1, Len(messages)) = messages)]_vars

C17_Witness ==
    /\ wpc = "stopped"
    /\ hist.lateAppend
    /\ Quiescent
    /\ messages /= <<>>

\* C18: whenever no thread holds _mutex, _messages_size equals the length of
\* _messages.
C18_SizeMirrorsQueue ==
    mutex = Free => messages_size = Len(messages)

C18_Witness ==
    /\ mutex = Free
    /\ messages_size = 1
    /\ hist.popped = 1
    /\ wpc \in LoopPositions

\* C19: when the worker executes front()/pop_front() the queue is not empty.
C19_PopNeverOnEmpty ==
    /\ wpc = "pop_front" => messages /= <<>>
    /\ wpc /= "undefined"

C19_Witness ==
    /\ wpc = "pop_front"
    /\ Len(messages) = 1
    /\ \E p \in Producers : ppc[p] = "lock"

\* C20: the lines passed to write(), then the line popped and not yet
\* written, then the queue, are together the lines appended so far, in order.
C20_Conservation ==
    stream.written \o Held \o messages = hist.appended

C20_Witness ==
    /\ wpc = "write"
    /\ Len(messages) = 1
    /\ opc = "msgs_unlock"

\* positions of the owner inside finishWriting() and messages()
CallPositions ==
    {"fin_lock", "fin_set", "fin_unlock", "msgs_copy", "msgs_unlock"}

\* C21: the worker opens the stream once and closes it once per run, on the
\* normal and on the open-failure path: it opens only as its first step,
\* closes only as the step by which run() returns, and takes no step after
\* that; it writes only after a successful open() and before its close(); no
\* step of addMessage, finishWriting or messages() operates on the stream.
C21_SinkLifecycle ==
    /\ [](/\ stream.opens <= 1
          /\ (wpc \in {"notstarted", "open"}) =>
                stream.opens = 0 /\ stream.closes = 0
          /\ Terminated =>
                stream.opens = 1 /\ stream.closes >= 1 /\ ~stream.open
          /\ (wpc \in LoopPositions \cup {"close"}) =>
                OpenedOk /\ (stream.closes = 0 \/ opc = "destroyed")
          /\ OpenFailed => stream.written = <<>>)
    /\ [][(/\ (stream'.written /= stream.written) =>
                /\ OpenedOk
                /\ stream.open
                /\ stream.closes = 0
                /\ wpc = "write"
           /\ (stream'.opens /= stream.opens) => wpc = "open"
           /\ (wpc' /= wpc) =>
                /\ ~Terminated
                /\ (wpc' \in {"stopped", "stopped_error"}) <=>
                      (stream'.closes = stream.closes + 1)
                /\ (wpc' \notin {"stopped", "stopped_error"}) =>
                      stream'.closes = stream.closes
           /\ (\/ ppc' /= ppc
               \/ /\ opc' /= opc
                  /\ opc \in CallPositions \/ opc' \in CallPositions) =>
                stream' = stream)]_vars

\* a run that wrote both lines and returned after finishWriting(): opened
\* once, closed once
C21_Witness ==
    /\ wpc = "stopped"
    /\ Len(stream.written) = 2
    /\ stream.opens = 1
    /\ stream.closes = 1
    /\ hist.finReturned
    /\ opc = "idle"

====
